---- MODULE Spec2Model ----
(***************************************************************************)
(* Guncad Index Scraper: the two-stage crawl (script_a.py), its driver     *)
(* (master.py) and the entry points of the download stage (script_b.py),   *)
(* as a state machine over the SQLite store, the scraper object, the       *)
(* asyncio tasks of a stage and the position of the main coroutine.        *)
(***************************************************************************)
EXTENDS Integers, Sequences, FiniteSets, TLC

VARIABLES
    web,            \* the site: what a GET of search page p answers (fixed)
    args,           \* argparse Namespace of the running process
    entry,          \* which script was started: "master" | "script_b" | "none"
    pc,             \* position of the main coroutine / process
    fresh,          \* history: the store was empty when this process started
    deletes,        \* rows deleted so far by another connection
    links,          \* table links
    details,        \* table details
    exturl,         \* table exturl
    slinks,         \* GuncadScraper.links
    failed_pages,   \* GuncadScraper.failed_pages
    failed_deep,    \* GuncadScraper.failed_deep
    tasks1,         \* scan_search tasks of the running stage1_search
    tasks2,         \* scrape_detail tasks of the running stage2_deep
    inserted,       \* return value of the last save_links of this process
    stats,          \* get_stats() result of this process
    errlog,         \* number of logger.error calls made by fetch in this process
    s1count,        \* history: Stage 1 fan-ins completed since the last external delete (2: two or more)
    trace,          \* history: the phases this process has gone through, in order
    lbryt,          \* script_b.lbryt: TRUE when `import lbrytools` succeeded, FALSE for None
    queue,          \* rows of fetch_external_links the resolver has not visited yet
    cur,            \* the reference process_external_links is working on
    outcomes        \* history: terminal outcome of every reference visited in this run

vars == <<web, args, entry, pc, fresh, deletes, links, details, exturl, slinks,
          failed_pages, failed_deep, tasks1, tasks2, inserted, stats, errlog, s1count,
          trace, lbryt, queue, cur, outcomes>>

\* the state of the download stage (script_b)
rvars == <<lbryt, queue, cur, outcomes>>

(* ------------------------------ bounds --------------------------------- *)
\* last search page of the range (-e), the range starts at StartPage
EndPage == 2
\* rows the exturl table may hold (a run that finds a link again adds a row)
MaxExt == 2
\* rows another connection deletes in one behaviour
MaxDeletes == 1
\* largest concurrency limit tried for -c and -d
MaxLimit == 2
\* rows of the exturl table the download stage starts from
MaxRefs == 3

(* ------------------------- program constants --------------------------- *)
StartPage == 1
TitleMax == 100
LinkTextMax == 50
HttpOk == 200

Pages == StartPage..EndPage

(* ------------------------------- strings ------------------------------- *)
\* A string is a sequence of one-character strings; "" is <<>>.
Min(a, b) == IF a < b THEN a ELSE b

\* s[:n]
Take(s, n) == SubSeq(s, 1, Min(Len(s), n))

RECURSIVE LStrip(_)
LStrip(s) == IF s # <<>> /\ Head(s) = " " THEN LStrip(Tail(s)) ELSE s

RECURSIVE RStrip(_)
RStrip(s) == IF s # <<>> /\ s[Len(s)] = " " THEN RStrip(SubSeq(s, 1, Len(s) - 1)) ELSE s

\* get_text(strip=True) of an element holding one text node
Strip(s) == RStrip(LStrip(s))

Digits == <<"0", "1", "2", "3", "4", "5", "6", "7", "8", "9">>

\* str(page_num)
RECURSIVE DecStr(_)
DecStr(n) == IF n < 10 THEN <<Digits[n + 1]>>
             ELSE DecStr(n \div 10) \o <<Digits[(n % 10) + 1]>>

DigitVal(c) == CHOOSE d \in 0..9 : Digits[d + 1] = c

\* int(item['Page'])
RECURSIVE ParseInt(_)
ParseInt(s) == IF s = <<>> THEN 0
               ELSE 10 * ParseInt(SubSeq(s, 1, Len(s) - 1)) + DigitVal(s[Len(s)])

(* -------------------------------- urls --------------------------------- *)
\* A url or href is <<prefix, rest>>: the prefix tells its shape.
Origin == "https://guncadindex.com/"
RootRel == "/"
Relative == ""

IsAbsolute(u) == u[1] = Origin

\* script_a.py 75-76: only a leading "/" is resolved against the origin
Absolutize(href) == IF href[1] = RootRel THEN <<Origin, href[2]>> ELSE href

(* ------------------------------ the site ------------------------------- *)
Chr(c) == <<c>>
LongTitle == [i \in 1..(TitleMax + 1) |-> "x"]

\* a div.grid-view-max: its first a[href] (if any), its h2/h3/h4 whose class
\* contains "title" (if any), the anchor's title attribute and text
Card(hasA, href, hasH, htext, attr, text) ==
    [a |-> hasA, href |-> href, h |-> hasH, htext |-> htext, attr |-> attr, text |-> text]

HeadingCard(name, t) == Card(TRUE, <<RootRel, name>>, TRUE, t, <<>>, Chr("z"))
TextCard(href, t)    == Card(TRUE, href, FALSE, <<>>, <<>>, t)
AttrCard(name, t)    == Card(TRUE, <<RootRel, name>>, FALSE, <<>>, t, Chr("z"))
NoAnchorCard         == Card(FALSE, <<Relative, "">>, TRUE, Chr("a"), <<>>, <<>>)

\* An html document: the empty string, or the elements the parsers look at.
Html(cards, hasDesc, desc, anchors) ==
    [empty |-> FALSE, cards |-> cards, hasDesc |-> hasDesc, desc |-> desc, anchors |-> anchors]
EmptyHtml == [empty |-> TRUE, cards |-> <<>>, hasDesc |-> FALSE, desc |-> <<>>, anchors |-> <<>>]
ListingHtml(cards) == Html(cards, FALSE, <<>>, <<>>)

PageThree == ListingHtml(<<HeadingCard("u1", Chr("a")), HeadingCard("u2", Chr("b")),
                           HeadingCard("u3", <<" ", "c", " ">>)>>)
PageSame  == ListingHtml(<<NoAnchorCard, TextCard(<<RootRel, "u3">>, Chr(" ")),
                           TextCard(<<Origin, "u1">>, LongTitle),
                           HeadingCard("u2", Chr("b"))>>)
PageAttr  == ListingHtml(<<TextCard(<<Relative, "u2">>, Chr("b")), AttrCard("u3", Chr("c"))>>)

ListingBodies == {PageThree, PageSame, PageAttr}

\* What the server (or the network) answers to one GET.
Response(status, body) == [kind |-> "response", status |-> status, body |-> body, exc |-> "none"]
NetError(exc) == [kind |-> "error", status |-> 0, body |-> EmptyHtml, exc |-> exc]

PageOutcomes == {Response(HttpOk, b) : b \in ListingBodies} \cup {NetError("TimeoutError")}

(* detail pages *)
\* an <a href>: marker = href contains "/out/?u=", u = value of its u parameter
Anchor(marker, u, text) == [marker |-> marker, u |-> u, text |-> text]

DetailFull   == Html(<<>>, TRUE, <<" ", "d">>, <<Anchor(TRUE, "lbry://foo", Chr("t"))>>)
DetailNoDesc == Html(<<>>, FALSE, <<>>, <<Anchor(FALSE, "", Chr("t")),
                                          Anchor(TRUE, "a%2Fb", Chr("t"))>>)
DetailBare   == Html(<<>>, TRUE, Chr("e"), <<Anchor(TRUE, "", Chr("t"))>>)

\* the detail page of each listing of the site
DetailPage(url) ==
    IF url[2] = "u1" THEN DetailFull ELSE IF url[2] = "u2" THEN DetailNoDesc ELSE DetailBare

\* a GET of a detail page answers it, or fails; aiohttp refuses a url that
\* has no scheme and host
DetailOutcomesFor(url) ==
    IF IsAbsolute(url)
    THEN {Response(HttpOk, DetailPage(url)), Response(206, DetailPage(url)),
          Response(404, DetailBare), NetError("ClientError")}
    ELSE {NetError("InvalidURL")}

DetailOutcomes == UNION {DetailOutcomesFor(<<pre, n>>) : pre \in {Origin, Relative},
                                                         n \in {"u1", "u2", "u3"}}

(* ------------------------------- fetch --------------------------------- *)
Return(v) == [raised |-> FALSE, value |-> v]
Raise     == [raised |-> TRUE, value |-> EmptyHtml]

\* the exceptions of the outcomes above are all subclasses of Exception
CaughtByExceptException(exc) == exc \in {"ClientError", "TimeoutError", "InvalidURL"}

FetchIgnoresStatus(o) ==
    IF o.kind = "response" THEN Return(o.body)
    ELSE IF CaughtByExceptException(o.exc) THEN Return(EmptyHtml) ELSE Raise

\* GuncadScraper.fetch
Fetch(o) ==
    IF o.kind = "response"
    THEN IF o.status = HttpOk THEN Return(o.body) ELSE Return(EmptyHtml)
    ELSE IF CaughtByExceptException(o.exc) THEN Return(EmptyHtml) ELSE Raise

\* fetch calls logger.error exactly when it does not return r.text()
FetchLogsError(o) == ~(o.kind = "response" /\ o.status = HttpOk)

(* ---------------------------- page parsing ----------------------------- *)
Item(page, title, link) == [Page |-> DecStr(page), Title |-> Take(title, TitleMax), Link |-> link]

\* the loop of extract_links over the cards of a page, acc = self.links so far.
\* (h or a.get('title') or a).get_text(strip=True): a non-empty title attribute
\* is a str, which has no get_text, and the call raises AttributeError.
RECURSIVE ExtractCards(_, _, _)
ExtractCards(cards, page, acc) ==
    IF cards = <<>> THEN [raised |-> FALSE, links |-> acc]
    ELSE LET c == Head(cards)
             rest == Tail(cards)
         IN  IF ~c.a THEN ExtractCards(rest, page, acc)
             ELSE IF ~c.h /\ c.attr # <<>> THEN [raised |-> TRUE, links |-> acc]
             ELSE LET title == IF c.h THEN Strip(c.htext) ELSE Strip(c.text)
                  IN  IF title # <<>>
                      THEN ExtractCards(rest, page,
                                        Append(acc, Item(page, title, Absolutize(c.href))))
                      ELSE ExtractCards(rest, page, acc)

\* GuncadScraper.extract_links
ExtractLinks(html, page, acc) ==
    IF html.empty THEN [raised |-> FALSE, links |-> acc]
    ELSE ExtractCards(html.cards, page, acc)

\* urllib.parse.unquote on the u values of the site
Unquote(u) == IF u = "a%2Fb" THEN "a/b" ELSE u

\* scrape_detail 154-155
Description(html) == IF html.hasDesc THEN Strip(html.desc) ELSE <<>>

\* scrape_detail 158-166
RECURSIVE ExtLinks(_)
ExtLinks(anchors) ==
    IF anchors = <<>> THEN <<>>
    ELSE LET a == Head(anchors)
         IN  IF a.marker /\ a.u # ""
             THEN <<[external_url |-> Unquote(a.u), source_href |-> <<"/out/?u=", a.u>>,
                     link_text |-> Take(Strip(a.text), LinkTextMax)]>> \o ExtLinks(Tail(anchors))
             ELSE ExtLinks(Tail(anchors))

(* ------------------------------ the store ------------------------------ *)
\* INTEGER PRIMARY KEY without AUTOINCREMENT: one more than the largest rowid
NextId(tbl) == IF tbl = {} THEN 1
               ELSE (CHOOSE m \in {r.id : r \in tbl} : \A r \in tbl : r.id <= m) + 1

LinkRow(id, item) ==
    [id |-> id, page |-> ParseInt(item.Page), title |-> item.Title, link |-> item.Link]

InsertLinkUnconstrained(tbl, item) ==
    [tbl |-> tbl \cup {LinkRow(NextId(tbl), item)}, rowcount |-> 1]

InsertOrReplaceLink(tbl, item) ==
    LET kept == {r \in tbl : r.link # item.Link}
    IN  [tbl |-> kept \cup {LinkRow(NextId(kept), item)}, rowcount |-> 1]

\* INSERT OR IGNORE INTO links: link is UNIQUE
InsertOrIgnoreLink(tbl, item) ==
    IF \E r \in tbl : r.link = item.Link
    THEN [tbl |-> tbl, rowcount |-> 0]
    ELSE [tbl |-> tbl \cup {LinkRow(NextId(tbl), item)}, rowcount |-> 1]

\* GuncadScraper.save_links: one transaction over self.links
RECURSIVE SaveLinks(_, _, _)
SaveLinks(items, tbl, n) ==
    IF items = <<>> THEN [tbl |-> tbl, inserted |-> n]
    ELSE LET r == InsertOrIgnoreLink(tbl, Head(items))
         IN  SaveLinks(Tail(items), r.tbl, IF r.rowcount > 0 THEN n + 1 ELSE n)

\* links l LEFT JOIN details d ON l.id = d.link_id: every match, and every
\* unmatched l once with a NULL d
NullDetail == [id |-> 0, link_id |-> 0, description |-> <<>>, null |-> TRUE]
AsJoined(d) == [id |-> d.id, link_id |-> d.link_id, description |-> d.description, null |-> FALSE]

LeftJoin(ls, ds) ==
    {<<l, AsJoined(d)>> : <<l, d>> \in {x \in ls \X ds : x[1].id = x[2].link_id}}
        \cup {<<l, NullDetail>> : l \in {k \in ls : \A d \in ds : d.link_id # k.id}}

GetUnscrapedInnerJoin(ls, ds) ==
    {<<j[1].id, j[1].link>> : j \in {x \in LeftJoin(ls, ds) : ~x[2].null}}

\* GuncadScraper.get_unscraped: ... WHERE d.link_id IS NULL
GetUnscraped(ls, ds) ==
    {<<j[1].id, j[1].link>> : j \in {x \in LeftJoin(ls, ds) : x[2].null}}

\* PRAGMA foreign_keys is a setting of one connection and is off in a new one:
\* init_db turns it on for its own connection only, so the connections of
\* save_links, get_unscraped and scrape_detail do not enforce the FOREIGN KEY
\* clauses of the schema.
ForeignKeysOn(conn) == conn = "init_db"

\* INSERT OR REPLACE INTO details: link_id is UNIQUE
UpsertDetail(ds, link_id, description) ==
    LET kept == {d \in ds : d.link_id # link_id}
    IN  kept \cup {[id |-> NextId(kept), link_id |-> link_id, description |-> description]}

RECURSIVE InsertExt(_, _, _)
InsertExt(es, link_id, exts) ==
    IF exts = <<>> THEN es
    ELSE InsertExt(es \cup {[id |-> NextId(es), link_id |-> link_id,
                             external_url |-> Head(exts).external_url,
                             source_href |-> Head(exts).source_href,
                             link_text |-> Head(exts).link_text]},
                   link_id, Tail(exts))

GetStatsCountsRows(ls, ds, es) ==
    [total_links |-> Cardinality(ls),
     pages_with_links |-> Cardinality(ls),
     links_with_details |-> Cardinality({d.link_id : d \in ds}),
     links_with_ext_urls |-> Cardinality({e.link_id : e \in es}),
     total_ext_urls |-> Cardinality(es)]

\* GuncadScraper.get_stats
GetStats(ls, ds, es) ==
    [total_links |-> Cardinality(ls),
     pages_with_links |-> Cardinality({l.page : l \in ls}),
     links_with_details |-> Cardinality({d.link_id : d \in ds}),
     links_with_ext_urls |-> Cardinality({e.link_id : e \in es}),
     total_ext_urls |-> Cardinality(es)]

NoStats == GetStats({}, {}, {})

RecordFailureTwice(fd, url) == fd \o <<url, url>>

\* scrape_detail 148: self.failed_deep.append(url)
RecordFailure(fd, url) == Append(fd, url)

(* ------------------------- the download stage -------------------------- *)
\* script_b reads urls, page text and messages character by character: the
\* strings below are spelled out as sequences.
Chars(s) == {s[i] : i \in 1..Len(s)}

\* s.startswith(p)
StartsWith(s, p) == Len(s) >= Len(p) /\ SubSeq(s, 1, Len(p)) = p

\* s[n:]
Drop(s, n) == SubSeq(s, n + 1, Len(s))

\* sub in s
Contains(s, sub) == \E i \in 0..(Len(s) - Len(sub)) : SubSeq(s, i + 1, i + Len(sub)) = sub

\* position of the first character of s that is in cs, 0 if there is none
Find(s, cs) ==
    IF \E i \in 1..Len(s) : s[i] \in cs
    THEN CHOOSE i \in 1..Len(s) : s[i] \in cs /\ \A j \in 1..(i - 1) : s[j] \notin cs
    ELSE 0

\* position of the last "/" of s, 0 if there is none
LastSlash(s) ==
    IF \E i \in 1..Len(s) : s[i] = "/"
    THEN CHOOSE i \in 1..Len(s) : s[i] = "/" /\ \A j \in (i + 1)..Len(s) : s[j] # "/"
    ELSE 0

RECURSIVE LStripChar(_, _)
LStripChar(s, c) == IF s # <<>> /\ Head(s) = c THEN LStripChar(Tail(s), c) ELSE s

RECURSIVE RStripChar(_, _)
RStripChar(s, c) ==
    IF s # <<>> /\ s[Len(s)] = c THEN RStripChar(SubSeq(s, 1, Len(s) - 1), c) ELSE s

\* s.strip(c)
StripChar(s, c) == RStripChar(LStripChar(s, c), c)

\* s.split(c)
RECURSIVE Split(_, _)
Split(s, c) ==
    LET i == Find(s, {c})
    IN  IF i = 0 THEN <<s>> ELSE <<SubSeq(s, 1, i - 1)>> \o Split(Drop(s, i), c)

\* c.join(parts)
RECURSIVE Join(_, _)
Join(parts, c) ==
    IF parts = <<>> THEN <<>>
    ELSE IF Len(parts) = 1 THEN parts[1]
    ELSE parts[1] \o <<c>> \o Join(Tail(parts), c)

Uppers == <<"A", "B", "C", "D", "E", "F", "G", "H", "I", "J", "K", "L", "M",
            "N", "O", "P", "Q", "R", "S", "T", "U", "V", "W", "X", "Y", "Z">>
Lowers == <<"a", "b", "c", "d", "e", "f", "g", "h", "i", "j", "k", "l", "m",
            "n", "o", "p", "q", "r", "s", "t", "u", "v", "w", "x", "y", "z">>

LowerChar(c) ==
    IF \E i \in 1..Len(Uppers) : Uppers[i] = c
    THEN Lowers[CHOOSE i \in 1..Len(Uppers) : Uppers[i] = c]
    ELSE c

\* s.lower()
RECURSIVE Lower(_)
Lower(s) == IF s = <<>> THEN <<>> ELSE <<LowerChar(Head(s))>> \o Lower(Tail(s))

\* the %XX escapes that occur in the urls below, with their characters
PctEscapes == {<<<<"2", "F">>, "/">>, <<<<"2", "f">>, "/">>, <<<<"3", "A">>, ":">>,
               <<<<"3", "a">>, ":">>, <<<<"2", "3">>, "#">>, <<<<"2", "0">>, " ">>}

\* urllib.parse.unquote of a character sequence
RECURSIVE UnquoteSeq(_)
UnquoteSeq(s) ==
    IF s = <<>> THEN <<>>
    ELSE IF Head(s) = "%" /\ Len(s) >= 3 /\ \E e \in PctEscapes : e[1] = SubSeq(s, 2, 3)
    THEN <<(CHOOSE e \in PctEscapes : e[1] = SubSeq(s, 2, 3))[2]>> \o UnquoteSeq(Drop(s, 3))
    ELSE <<Head(s)>> \o UnquoteSeq(Tail(s))

SchemeChars == Chars(Uppers) \cup Chars(Lowers) \cup Chars(Digits) \cup {"+", "-", "."}

\* urllib.parse.urlparse: scheme, netloc and path of a url (urls with
\* parameters are not among the inputs)
UrlParse(uri) ==
    LET i         == Find(uri, {":"})
        hasScheme == /\ i > 1
                     /\ uri[1] \in Chars(Uppers) \cup Chars(Lowers)
                     /\ \A j \in 1..(i - 1) : uri[j] \in SchemeChars
        rest      == IF hasScheme THEN Drop(uri, i) ELSE uri
        hasNetloc == StartsWith(rest, <<"/", "/">>)
        after     == Drop(rest, 2)
        k         == Find(after, {"/", "?", "#"})
        tail      == IF ~hasNetloc THEN rest
                     ELSE IF k = 0 THEN <<>> ELSE Drop(after, k - 1)
        q         == Find(tail, {"?", "#"})
    IN  [scheme |-> IF hasScheme THEN Lower(SubSeq(uri, 1, i - 1)) ELSE <<>>,
         netloc |-> IF ~hasNetloc THEN <<>>
                    ELSE IF k = 0 THEN after ELSE SubSeq(after, 1, k - 1),
         path   |-> IF q = 0 THEN tail ELSE SubSeq(tail, 1, q - 1)]

\* urllib.parse.urljoin(base, href) for an href that is absolute, starts with
\* "/" or is a plain relative path (no "..", no query)
UrlJoin(base, href) ==
    LET b == UrlParse(base)
        h == UrlParse(href)
        origin == b.scheme \o <<":", "/", "/">> \o b.netloc
    IN  IF h.scheme # <<>> THEN href
        ELSE IF StartsWith(href, <<"/", "/">>) THEN b.scheme \o <<":">> \o href
        ELSE IF StartsWith(href, <<"/">>) THEN origin \o href
        ELSE origin \o (IF LastSlash(b.path) = 0 THEN <<"/">>
                        ELSE SubSeq(b.path, 1, LastSlash(b.path))) \o href

(* Python values the download stage passes around: None, a bool, a str, or a
   dict given by the set of its keys (every value of those dicts is a non-empty
   string). *)
PyNone    == [t |-> "none", b |-> FALSE, s |-> <<>>, d |-> {}]
PyBool(b) == [t |-> "bool", b |-> b, s |-> <<>>, d |-> {}]
PyStr(s)  == [t |-> "str", b |-> FALSE, s |-> s, d |-> {}]
PyDict(d) == [t |-> "dict", b |-> FALSE, s |-> <<>>, d |-> d]

\* bool(v)
Truthy(v) ==
    IF v.t = "bool" THEN v.b
    ELSE IF v.t = "str" THEN v.s # <<>>
    ELSE IF v.t = "dict" THEN v.d # {}
    ELSE FALSE

\* a or b
PyOr(a, b) == IF Truthy(a) THEN a ELSE b

LbryScheme == <<"l", "b", "r", "y", ":", "/", "/">>
PortalName == <<"o", "d", "y", "s", "e", "e", ".", "c", "o", "m">>

\* odysee_to_canonical 108-112 for one segment
RewriteSegment(segment) ==
    IF ":" \in Chars(segment) /\ "#" \notin Chars(segment)
    THEN LET i == Find(segment, {":"})
         IN  SubSeq(segment, 1, i - 1) \o <<"#">> \o Drop(segment, i)
    ELSE segment

RECURSIVE RewriteSegments(_)
RewriteSegments(segments) ==
    IF segments = <<>> THEN <<>>
    ELSE <<RewriteSegment(Head(segments))>> \o RewriteSegments(Tail(segments))

\* script_b.odysee_to_canonical
OdyseeToCanonical(uri) ==
    IF StartsWith(uri, LbryScheme)
    THEN PyStr(StripChar(Drop(uri, Len(LbryScheme)), "/"))
    ELSE LET parsed == UrlParse(uri)
         IN  IF ~Contains(Lower(parsed.netloc), PortalName) THEN PyNone
             ELSE LET path == UnquoteSeq(StripChar(parsed.path, "/"))
                  IN  IF path = <<>> THEN PyNone
                      ELSE PyStr(StripChar(Join(RewriteSegments(Split(path, "/")), "/"), "/"))

(* pages of external sites: the <a> and <button> elements in document order *)
\* text = get_text(" ", strip=True); attrs = the attributes present among
\* download and data-download; href, data_href = tag.get(...), PyNone if absent
Element(tag, text, attrs, href, data_href) ==
    [tag |-> tag, text |-> text, attrs |-> attrs, href |-> href, data_href |-> data_href]

DownloadWord == <<"d", "o", "w", "n", "l", "o", "a", "d">>

\* find_download_target 67-72
DownloadSelectors == <<[tag |-> "a", by |-> "text"], [tag |-> "button", by |-> "text"],
                       [tag |-> "a", by |-> "download"],
                       [tag |-> "button", by |-> "data-download"]>>

Predicate(selector, tag) ==
    IF selector.by = "text" THEN Contains(Lower(tag.text), DownloadWord)
    ELSE selector.by \in tag.attrs

\* find_download_target 75-79 for one selector over soup.find_all(selector)
RECURSIVE ScanTags(_, _, _)
ScanTags(selector, tags, page_url) ==
    IF tags = <<>> THEN PyNone
    ELSE LET tag  == Head(tags)
             href == PyOr(tag.href, tag.data_href)
         IN  IF tag.tag = selector.tag /\ Predicate(selector, tag) /\ Truthy(href)
             THEN PyStr(UrlJoin(page_url, href.s))
             ELSE ScanTags(selector, Tail(tags), page_url)

RECURSIVE ScanSelectors(_, _, _)
ScanSelectors(selectors, tags, page_url) ==
    IF selectors = <<>> THEN PyNone
    ELSE LET found == ScanTags(Head(selectors), tags, page_url)
         IN  IF found.t # "none" THEN found
             ELSE ScanSelectors(Tail(selectors), tags, page_url)

FindDownloadTargetFirstMatchOnly(page_url, tags) ==
    LET matching == [i \in 1..Len(DownloadSelectors) |->
                        SelectSeq(tags, LAMBDA t : t.tag = DownloadSelectors[i].tag
                                                   /\ Predicate(DownloadSelectors[i], t))]
        all == matching[1] \o matching[2] \o matching[3] \o matching[4]
    IN  IF all = <<>> THEN PyNone
        ELSE LET href == PyOr(all[1].href, all[1].data_href)
             IN  IF Truthy(href) THEN PyStr(UrlJoin(page_url, href.s)) ELSE PyNone

\* script_b.find_download_target
FindDownloadTarget(page_url, tags) == ScanSelectors(DownloadSelectors, tags, page_url)

(* what the network answers to the download stage: requests.get / requests.post *)
Json(valid, hasError, result) == [valid |-> valid, hasError |-> hasError, result |-> result]
NoJson == Json(FALSE, FALSE, PyNone)

\* a response with its status, its <a>/<button> elements and its JSON body
Reply(status, tags, json) ==
    [kind |-> "response", status |-> status, exc |-> "none", tags |-> tags, json |-> json]
\* requests raises exc instead of answering
Failed(exc) == [kind |-> "error", status |-> 0, exc |-> exc, tags |-> <<>>, json |-> NoJson]
NoCall == [kind |-> "none", status |-> 0, exc |-> "none", tags |-> <<>>, json |-> NoJson]

\* requests.get / requests.post followed by raise_for_status() inside
\* try ... except requests.RequestException (which every exc below is a
\* subclass of): TRUE when no exception is raised
RequestOk(o) == o.kind = "response" /\ o.status < 400

\* script_b.trigger_download
TriggerDownload(o) == RequestOk(o)

\* script_b.call_lbry_rpc: the result, or None
CallLbryRpc(o) ==
    IF ~RequestOk(o) THEN PyNone
    ELSE IF ~o.json.valid THEN PyNone
    ELSE IF o.json.hasError THEN PyNone
    ELSE o.json.result

\* script_b.fallback_lbry_get
FallbackLbryGet(o) == Truthy(CallLbryRpc(o))

(* what lbryt.download_single answers *)
Returned(v) == [kind |-> "returns", value |-> v, msg |-> <<>>]
Raised(msg) == [kind |-> "raises", value |-> PyNone, msg |-> msg]
NotCalled   == [kind |-> "none", value |-> PyNone, msg |-> <<>>]

ConnectPhrase == <<"C", "a", "n", "n", "o", "t", " ", "e", "s", "t", "a", "b", "l", "i", "s",
        "h", " ", "c", "o", "n", "n", "e", "c", "t", "i", "o", "n">>
DaemonDownMessage == ConnectPhrase \o <<" ", "t", "o", " ", "l", "b", "r", "y", "n", "e", "t">>
OtherMessage == <<"t", "i", "m", "e", "d", " ", "o", "u", "t">>

HandleLbryErrorAlwaysFallsBack(msg) == "fallback"

\* script_b.handle_lbry_error: give up, or fall back to fallback_lbry_get
HandleLbryError(msg) == IF Contains(msg, ConnectPhrase) THEN "failure" ELSE "fallback"

DownloadWithLbrytoolsFalseIsFinal(available, r) ==
    IF ~available THEN "failure"
    ELSE IF r.kind = "raises" THEN HandleLbryError(r.msg)
    ELSE IF r.value.t = "bool" THEN (IF r.value.b THEN "success" ELSE "failure")
    ELSE IF r.value.t # "dict" THEN "fallback"
    ELSE "success"

\* script_b.download_with_lbrytools up to its return or its call of
\* fallback_lbry_get; available = (lbryt is not None), r = what download_single
\* answers
DownloadWithLbrytools(available, r) ==
    IF ~available THEN "failure"
    ELSE IF r.kind = "raises" THEN HandleLbryError(r.msg)
    ELSE IF r.value.t = "bool" THEN (IF r.value.b THEN "success" ELSE "fallback")
    ELSE IF r.value.t # "dict" THEN "fallback"
    ELSE "success"

TierAResults == {Returned(PyBool(TRUE)), Returned(PyBool(FALSE)),
                 Returned(PyDict({"download_path"})), Returned(PyDict({})),
                 Returned(PyNone), Raised(DaemonDownMessage), Raised(OtherMessage)}

\* download_single is called only when the library was imported
TierAOutcomes(available) == IF available THEN TierAResults ELSE {NotCalled}

RpcResponses == {Failed("ConnectionError"),
                 Reply(500, <<>>, Json(TRUE, FALSE, PyDict({"download_path"}))),
                 Reply(HttpOk, <<>>, Json(FALSE, FALSE, PyNone)),
                 Reply(HttpOk, <<>>, Json(TRUE, TRUE, PyNone)),
                 Reply(HttpOk, <<>>, Json(TRUE, TRUE, PyDict({"download_path"}))),
                 Reply(HttpOk, <<>>, Json(TRUE, FALSE, PyNone)),
                 Reply(HttpOk, <<>>, Json(TRUE, FALSE, PyDict({}))),
                 Reply(HttpOk, <<>>, Json(TRUE, FALSE, PyDict({"download_path"}))),
                 Reply(HttpOk, <<>>, Json(TRUE, FALSE, PyDict({"claim_id"})))}

(* the external references and the pages behind them *)
Https == <<"h", "t", "t", "p", "s", ":", "/", "/">>
GenericHost == <<"e", "x", ".", "o", "r", "g">>
NativeUri        == LbryScheme \o <<"f", "o", "o", "/", "b", "a", "r">>
EmptyNativeUri   == LbryScheme
PortalUrl        == Https \o PortalName \o <<"/", "I", "t", "e", "m", ":", "a", "b", "c", "1",
        "2", "3">>
PortalRootUrl    == Https \o PortalName \o <<"/">>
EncodedPortalUrl == Https \o <<"O", "D", "Y", "S", "E", "E", ".", "c", "o", "m">> \o <<"/", "a",
        "%", "3", "A", "b", "/", "x", "%", "2", "3", "y", ":", "z", "/">>
LookalikeUrl     == Https \o <<"n", "o", "t">> \o PortalName \o <<"/", "I", "t", "e", "m", ":",
        "a", "b", "c", "1", "2", "3">>
GenericUrl       == Https \o GenericHost \o <<"/", "f", "/", "p", "a", "g", "e">>

RefUrls == {NativeUri, EmptyNativeUri, PortalUrl, PortalRootUrl, EncodedPortalUrl,
            LookalikeUrl, GenericUrl}

PageAnchor == <<Element("a", <<"D", "o", "w", "n", "l", "o", "a", "d">>, {}, PyStr(<<"/", "f",
        ".", "z", "i", "p">>), PyNone)>>
PageMixed  == <<Element("button", <<"g", "e", "t">>, {"data-download"}, PyNone, PyStr(<<"d", ".",
        "b", "i", "n">>)),
                Element("a", <<"m", "i", "r", "r", "o", "r">>, {"download"},
                        PyStr(Https \o <<"c", "d", "n", ".", "e", "x", "/", "x">>), PyNone),
                Element("a", <<"D", "O", "W", "N", "L", "O", "A", "D", " ", "n", "o", "w">>, {},
                        PyNone, PyNone),
                Element("button", <<"d", "o", "w", "n", "l", "o", "a", "d">>, {}, PyStr(<<>>),
                        PyStr(<<"b", ".", "z", "i", "p">>))>>
PageAttrs  == <<Element("button", <<"g", "e", "t">>, {"data-download"}, PyNone, PyStr(<<"/",
        "d">>)),
                Element("a", <<"f", "i", "l", "e">>, {"download"}, PyStr(<<"x">>), PyNone)>>
PageNoHref == <<Element("a", <<"D", "o", "w", "n", "l", "o", "a", "d">>, {}, PyNone, PyNone)>>
PagePlain  == <<Element("a", <<"h", "o", "m", "e">>, {}, PyStr(<<"/">>), PyNone)>>

ExtPages == {PageAnchor, PageMixed, PageAttrs, PageNoHref, PagePlain}

\* what a GET of an external url answers: requests refuses a url whose scheme
\* is not http or https
PageOutcomesFor(url) ==
    IF UrlParse(url).scheme \in {<<"h", "t", "t", "p">>, <<"h", "t", "t", "p", "s">>}
    THEN {Failed("ConnectionError"), Reply(404, PagePlain, NoJson)}
             \cup {Reply(HttpOk, p, NoJson) : p \in ExtPages}
    ELSE {Failed("InvalidSchema")}

TriggerOutcomes == {Reply(HttpOk, <<>>, NoJson), Reply(500, <<>>, NoJson), Failed("Timeout")}

\* a row of exturl as the resolver reads it
ExternalLink(id, link_id, external_url) ==
    [id |-> id, link_id |-> link_id, external_url |-> external_url,
     source_href |-> <<"/out/?u=", "ref">>, link_text |-> Chr("t")]

\* the exturl tables of up to MaxRefs references, in every order of ids
RefTables ==
    {{ExternalLink(i, 1, q[i]) : i \in 1..Len(q)} :
        q \in UNION {[1..n -> RefUrls] : n \in 0..MaxRefs}}

FetchExternalLinksNewestFirst(es) ==
    LET RECURSIVE Desc(_)
        Desc(rows) ==
            IF rows = {} THEN <<>>
            ELSE LET r == CHOOSE x \in rows : \A y \in rows : y.id <= x.id
                 IN  <<r>> \o Desc(rows \ {r})
    IN  Desc(es)

\* script_b.fetch_external_links: SELECT ... FROM exturl ORDER BY id
FetchExternalLinks(es) ==
    LET RECURSIVE Asc(_)
        Asc(rows) ==
            IF rows = {} THEN <<>>
            ELSE LET r == CHOOSE x \in rows : \A y \in rows : x.id <= y.id
                 IN  <<r>> \o Asc(rows \ {r})
    IN  Asc(es)

\* the reference in work: the inputs it met and where it stands
Reference(ext, canonical) ==
    [id |-> ext.id, url |-> ext.external_url, canonical |-> canonical,
     tier_a |-> NotCalled, rpc |-> NoCall, page |-> NoCall, target |-> PyNone,
     trigger |-> NoCall, result |-> "pending"]
NoReference == [id |-> 0, url |-> <<>>, canonical |-> PyNone,
                tier_a |-> NotCalled, rpc |-> NoCall, page |-> NoCall, target |-> PyNone,
                trigger |-> NoCall, result |-> "none"]

Outcome(id, result, how) == [id |-> id, result |-> result, how |-> how]

(* ------------------------------ processes ------------------------------ *)
\* the Namespace build_parser produces (dests s, e, db, o, fast, verbose and
\* debug are not read by the steps below); it has no attribute stage2
\* the limits tried for -c and -d together: c + cd = MaxLimit + 1
ArgsSet == {a \in [deep : BOOLEAN, stage1 : BOOLEAN, c : 1..MaxLimit, cd : 1..MaxLimit] :
                a.c + a.cd = MaxLimit + 1}
NoArgs == [deep |-> FALSE, stage1 |-> FALSE, c |-> 1, cd |-> 1]

HasAttr(ns, name) == name \in DOMAIN ns

NoTasks == [x \in {} |-> "sleep"]

Running == {"stage1", "after_s1", "stage2", "after_s2", "main_ret", "resolver"}
Stopped == {"idle", "done", "crashed", "killed"}

InFlight(tasks) == Cardinality({x \in DOMAIN tasks : tasks[x] = "inflight"})

ConnectorUnlimited(n, limit) == TRUE

\* aiohttp.TCPConnector(limit=...): a request gets a connection only while
\* fewer than limit are in use
ConnectorHasRoom(n, limit) == n < limit

GatherFirstCompleted(tasks, finished) == \E x \in DOMAIN tasks : tasks[x] \in finished

\* await asyncio.gather(*tasks) returns when every task has finished
GatherDone(tasks, finished) == \A x \in DOMAIN tasks : tasks[x] \in finished

\* gather (return_exceptions=False) raises as soon as one task has raised
GatherRaised(tasks) == \E x \in DOMAIN tasks : tasks[x] = "raised"

\* the event loop going down cancels the tasks that have not finished
CancelPending(tasks) ==
    [x \in DOMAIN tasks |-> IF tasks[x] \in {"sleep", "inflight"} THEN "cancelled" ELSE tasks[x]]

Init ==
    /\ web \in [Pages -> PageOutcomes]
    /\ args = NoArgs
    /\ entry = "none"
    /\ pc = "idle"
    /\ fresh = TRUE
    /\ deletes = 0
    /\ links = {}
    /\ details = {}
    /\ exturl = {}
    /\ slinks = <<>>
    /\ failed_pages = <<>>
    /\ failed_deep = <<>>
    /\ tasks1 = NoTasks
    /\ tasks2 = NoTasks
    /\ inserted = 0
    /\ stats = NoStats
    /\ errlog = 0
    /\ s1count = 0
    /\ trace = <<>>
    /\ lbryt = TRUE
    /\ queue = <<>>
    /\ cur = NoReference
    /\ outcomes = <<>>

\* master.main 82-96, run_scraper, _run_scraper 259-284, GuncadScraper.__init__
\* and the launch of stage1_search 90-93
MainStart(a) ==
    /\ UNCHANGED rvars
    /\ pc \in Stopped
    /\ fresh' = (links = {} /\ details = {} /\ exturl = {})
    /\ entry' = "master"
    /\ args' = a
    /\ slinks' = <<>>
    /\ failed_pages' = <<>>
    /\ failed_deep' = <<>>
    /\ tasks2' = NoTasks
    /\ inserted' = 0
    /\ stats' = NoStats
    /\ errlog' = 0
    /\ IF a.stage1
       THEN /\ pc' = "stage1"
            /\ tasks1' = [p \in Pages |-> "sleep"]
       ELSE /\ pc' = "main_ret"
            /\ tasks1' = NoTasks
    /\ trace' = <<>>
    /\ UNCHANGED <<web, deletes, links, details, exturl, s1count>>

\* scan_search 85-86 up to the request holding a connection
ScanBegin(p) ==
    /\ UNCHANGED rvars
    /\ pc = "stage1"
    /\ tasks1[p] = "sleep"
    /\ ConnectorHasRoom(InFlight(tasks1), args.c)
    /\ tasks1' = [tasks1 EXCEPT ![p] = "inflight"]
    /\ UNCHANGED <<web, args, entry, pc, fresh, deletes, links, details, exturl, slinks,
                   failed_pages, failed_deep, tasks2, inserted, stats, errlog, s1count, trace>>

\* scan_search 86-87: fetch returns, extract_links runs
ScanComplete(p) ==
    /\ UNCHANGED rvars
    /\ pc = "stage1"
    /\ tasks1[p] = "inflight"
    /\ LET f == Fetch(web[p])
           x == ExtractLinks(f.value, p, slinks)
       IN  /\ errlog' = IF FetchLogsError(web[p]) THEN errlog + 1 ELSE errlog
           /\ IF f.raised
              THEN /\ tasks1' = [tasks1 EXCEPT ![p] = "raised"]
                   /\ slinks' = slinks
              ELSE /\ tasks1' = [tasks1 EXCEPT ![p] = IF x.raised THEN "raised" ELSE "done"]
                   /\ slinks' = x.links
    /\ UNCHANGED <<web, args, entry, pc, fresh, deletes, links, details, exturl,
                   failed_pages, failed_deep, tasks2, inserted, stats, s1count, trace>>

\* stage1_search 93-95: the gather returns, save_links if self.links
Stage1Join ==
    /\ UNCHANGED rvars
    /\ pc = "stage1"
    /\ GatherDone(tasks1, {"done"})
    /\ LET r == SaveLinks(slinks, links, 0)
       IN  IF slinks # <<>>
           THEN links' = r.tbl /\ inserted' = r.inserted
           ELSE links' = links /\ inserted' = 0
    /\ pc' = "after_s1"
    /\ s1count' = IF s1count = 0 THEN 1 ELSE 2
    /\ trace' = Append(trace, "stage1_commit")
    /\ UNCHANGED <<web, args, entry, fresh, deletes, details, exturl, slinks,
                   failed_pages, failed_deep, tasks1, tasks2, stats, errlog>>

\* stage1_search 93: the gather raises a task's exception, which nothing
\* catches up to master.main; asyncio.run cancels what is still pending
Stage1Raise ==
    /\ UNCHANGED rvars
    /\ pc = "stage1"
    /\ GatherRaised(tasks1)
    /\ pc' = "crashed"
    /\ tasks1' = CancelPending(tasks1)
    /\ UNCHANGED <<web, args, entry, fresh, deletes, links, details, exturl, slinks,
                   failed_pages, failed_deep, tasks2, inserted, stats, errlog, s1count, trace>>

\* _run_scraper 287-291 and stage2_deep 180-189
Stage2Start ==
    /\ UNCHANGED rvars
    /\ pc = "after_s1"
    /\ LET unscraped == GetUnscraped(links, details)
       IN  IF args.deep /\ unscraped # {}
           THEN /\ pc' = "stage2"
                /\ tasks2' = [w \in unscraped |-> "sleep"]
                /\ trace' = Append(trace, "stage2_workset")
           ELSE /\ pc' = "after_s2"
                /\ tasks2' = NoTasks
                /\ trace' = IF args.deep
                            THEN trace \o <<"stage2_workset", "stage2_done">>
                            ELSE trace
    /\ UNCHANGED <<web, args, entry, fresh, deletes, links, details, exturl, slinks,
                   failed_pages, failed_deep, tasks1, inserted, stats, errlog, s1count>>

\* scrape_detail 145-146 up to the request holding a connection
DetailBegin(w) ==
    /\ UNCHANGED rvars
    /\ pc = "stage2"
    /\ w \in DOMAIN tasks2
    /\ tasks2[w] = "sleep"
    /\ ConnectorHasRoom(InFlight(tasks2), args.cd)
    /\ tasks2' = [tasks2 EXCEPT ![w] = "inflight"]
    /\ UNCHANGED <<web, args, entry, pc, fresh, deletes, links, details, exturl, slinks,
                   failed_pages, failed_deep, tasks1, inserted, stats, errlog, s1count, trace>>

DetailCompleteAlwaysUpserts(w, o) ==
    /\ UNCHANGED rvars
    /\ pc = "stage2"
    /\ w \in DOMAIN tasks2
    /\ tasks2[w] = "inflight"
    /\ o \in DetailOutcomesFor(w[2])
    /\ Cardinality(exturl) + Len(ExtLinks(Fetch(o).value.anchors)) <= MaxExt
    /\ LET f == Fetch(o)
       IN  /\ errlog' = IF FetchLogsError(o) THEN errlog + 1 ELSE errlog
           /\ IF f.value.empty
              THEN /\ failed_deep' = RecordFailure(failed_deep, w[2])
                   /\ tasks2' = [tasks2 EXCEPT ![w] = "failed"]
                   /\ UNCHANGED <<details, exturl>>
              ELSE /\ details' = UpsertDetail(details, w[1], Description(f.value))
                   /\ exturl' = InsertExt(exturl, w[1], ExtLinks(f.value.anchors))
                   /\ tasks2' = [tasks2 EXCEPT ![w] = "saved"]
                   /\ UNCHANGED failed_deep
    /\ UNCHANGED <<web, args, entry, pc, fresh, deletes, links, slinks,
                   failed_pages, tasks1, inserted, stats, s1count, trace>>

\* scrape_detail 146-177 for one answer o of the detail page
DetailComplete(w, o) ==
    /\ UNCHANGED rvars
    /\ pc = "stage2"
    /\ w \in DOMAIN tasks2
    /\ tasks2[w] = "inflight"
    /\ o \in DetailOutcomesFor(w[2])
    /\ Cardinality(exturl) + Len(ExtLinks(Fetch(o).value.anchors)) <= MaxExt
    /\ LET f == Fetch(o)
           description == Description(f.value)
           exts == ExtLinks(f.value.anchors)
           orphan == \A l \in links : l.id # w[1]
           violates == ForeignKeysOn("scrape_detail") /\ orphan
                          /\ (description # <<>> \/ exts # <<>>)
       IN  /\ errlog' = IF FetchLogsError(o) THEN errlog + 1 ELSE errlog
           /\ IF f.raised
              THEN /\ tasks2' = [tasks2 EXCEPT ![w] = "raised"]
                   /\ UNCHANGED <<failed_deep, details, exturl>>
              ELSE IF f.value.empty
              THEN /\ failed_deep' = RecordFailure(failed_deep, w[2])
                   /\ tasks2' = [tasks2 EXCEPT ![w] = "failed"]
                   /\ UNCHANGED <<details, exturl>>
              ELSE IF violates
              THEN /\ tasks2' = [tasks2 EXCEPT ![w] = "raised"]
                   /\ UNCHANGED <<failed_deep, details, exturl>>
              ELSE /\ details' = IF description # <<>>
                                 THEN UpsertDetail(details, w[1], description)
                                 ELSE details
                   /\ exturl' = InsertExt(exturl, w[1], exts)
                   /\ tasks2' = [tasks2 EXCEPT ![w] = "saved"]
                   /\ UNCHANGED failed_deep
    /\ UNCHANGED <<web, args, entry, pc, fresh, deletes, links, slinks,
                   failed_pages, tasks1, inserted, stats, s1count, trace>>

\* stage2_deep 190-193: the gather returns (or raises)
Stage2Join ==
    /\ UNCHANGED rvars
    /\ pc = "stage2"
    /\ \/ GatherDone(tasks2, {"saved", "failed"})
       \/ GatherRaised(tasks2)
    /\ pc' = IF GatherRaised(tasks2) THEN "crashed" ELSE "after_s2"
    /\ tasks2' = CancelPending(tasks2)
    /\ trace' = IF GatherRaised(tasks2) THEN trace ELSE Append(trace, "stage2_done")
    /\ UNCHANGED <<web, args, entry, fresh, deletes, links, details, exturl, slinks,
                   failed_pages, failed_deep, tasks1, inserted, stats, errlog, s1count>>

\* _run_scraper 294-318 (the JSON export writes no table): the result keeps the
\* stats and failed_deep, the scraper object and its tasks are dropped
Finish ==
    /\ UNCHANGED rvars
    /\ pc = "after_s2"
    /\ stats' = GetStats(links, details, exturl)
    /\ pc' = "main_ret"
    /\ trace' = Append(trace, "returned")
    /\ slinks' = <<>>
    /\ tasks1' = NoTasks
    /\ tasks2' = NoTasks
    /\ inserted' = 0
    /\ UNCHANGED <<web, args, entry, fresh, deletes, links, details, exturl,
                   failed_pages, failed_deep, errlog, s1count>>

\* master.main 98-99: reading args.stage2 raises AttributeError when the
\* Namespace has no such attribute; the result dies with the process
MainReturn ==
    /\ UNCHANGED rvars
    /\ pc = "main_ret"
    /\ entry = "master"
    /\ pc' = IF ~HasAttr(args, "stage2") THEN "crashed"
             ELSE IF args["stage2"] THEN "resolver" ELSE "done"
    /\ IF HasAttr(args, "stage2") /\ args["stage2"]
       THEN UNCHANGED <<stats, failed_deep, errlog>>
       ELSE stats' = NoStats /\ failed_deep' = <<>> /\ errlog' = 0
    /\ UNCHANGED <<web, args, entry, fresh, deletes, links, details, exturl, slinks,
                   failed_pages, tasks1, tasks2, inserted, s1count, trace>>

\* script_b.py 260-268 run as a script: run_stage_two(sample) on guncad.db
ScriptBMain ==
    /\ lbryt' = lbryt
    /\ queue' = <<>>
    /\ cur' = NoReference
    /\ outcomes' = <<>>
    /\ pc \in Stopped
    /\ fresh' = (links = {} /\ details = {} /\ exturl = {})
    /\ entry' = "script_b"
    /\ pc' = "resolver"
    /\ args' = NoArgs
    /\ slinks' = <<>>
    /\ failed_pages' = <<>>
    /\ failed_deep' = <<>>
    /\ tasks1' = NoTasks
    /\ tasks2' = NoTasks
    /\ inserted' = 0
    /\ stats' = NoStats
    /\ errlog' = 0
    /\ trace' = <<>>
    /\ UNCHANGED <<web, deletes, links, details, exturl, s1count>>

\* run_stage_two 241-257 and process_external_links: reads exturl only; the
\* process ends
RunStageTwo ==
    /\ UNCHANGED rvars
    /\ pc = "resolver"
    /\ pc' = "done"
    /\ trace' = Append(trace, "resolver")
    /\ stats' = NoStats
    /\ failed_deep' = <<>>
    /\ errlog' = 0
    /\ UNCHANGED <<web, args, entry, fresh, deletes, links, details, exturl, slinks,
                   failed_pages, tasks1, tasks2, inserted, s1count>>

\* the process is interrupted (KeyboardInterrupt, kill) during Stage 1: the
\* scraper object and its tasks die with it
Interrupt ==
    /\ UNCHANGED rvars
    /\ pc = "stage1"
    /\ pc' = "killed"
    /\ slinks' = <<>>
    /\ tasks1' = NoTasks
    /\ errlog' = 0
    /\ UNCHANGED <<web, args, entry, fresh, deletes, links, details, exturl,
                   failed_pages, failed_deep, tasks2, inserted, stats, s1count, trace>>

\* another connection, one that enforces foreign keys, deletes a links row
\* while a process is running: ON DELETE CASCADE removes the details and
\* exturl rows of that listing
ExternalDelete(l) ==
    /\ UNCHANGED rvars
    /\ pc \in Running
    /\ deletes < MaxDeletes
    /\ l \in links
    /\ deletes' = deletes + 1
    /\ links' = links \ {l}
    /\ details' = {d \in details : d.link_id # l.id}
    /\ exturl' = {e \in exturl : e.link_id # l.id}
    /\ s1count' = 0
    /\ UNCHANGED <<web, args, entry, pc, fresh, slinks, failed_pages, failed_deep,
                   tasks1, tasks2, inserted, stats, errlog, trace>>

Next ==
    \/ \E a \in ArgsSet : MainStart(a)
    \/ \E p \in Pages : ScanBegin(p)
    \/ \E p \in Pages : ScanComplete(p)
    \/ Stage1Join
    \/ Stage1Raise
    \/ Stage2Start
    \/ \E w \in DOMAIN tasks2 : DetailBegin(w)
    \/ \E w \in DOMAIN tasks2 : \E o \in DetailOutcomes :
           DetailComplete(w, o)
    \/ Stage2Join
    \/ Finish
    \/ MainReturn
    \/ ScriptBMain
    \/ RunStageTwo
    \/ Interrupt
    \/ \E l \in links : ExternalDelete(l)

Spec == Init /\ [][Next]_vars

(* --------------------- the download stage, step by step ---------------- *)
\* the scraper's state, which the download stage never touches
svars == <<web, args, entry, fresh, deletes, links, details, exturl, slinks, failed_pages,
           failed_deep, tasks1, tasks2, inserted, stats, errlog, s1count, trace>>

\* a store the scraper has filled from a site whose detail pages link to the
\* references of one table; no process is running
InitB ==
    /\ web = [p \in Pages |-> NetError("TimeoutError")]
    /\ args = NoArgs
    /\ entry = "none"
    /\ pc = "idle"
    /\ fresh = TRUE
    /\ deletes = 0
    /\ links = {LinkRow(1, Item(StartPage, Chr("a"), <<Origin, "u1">>))}
    /\ details = {}
    /\ exturl \in RefTables
    /\ slinks = <<>>
    /\ failed_pages = <<>>
    /\ failed_deep = <<>>
    /\ tasks1 = NoTasks
    /\ tasks2 = NoTasks
    /\ inserted = 0
    /\ stats = NoStats
    /\ errlog = 0
    /\ s1count = 0
    /\ trace = <<>>
    /\ lbryt \in BOOLEAN
    /\ queue = <<>>
    /\ cur = NoReference
    /\ outcomes = <<>>

\* the reference in work has reached its terminal outcome; the history keeps
\* which step decided it
Settle(c, result) ==
    /\ cur' = [c EXCEPT !.result = result]
    /\ outcomes' = Append(outcomes, Outcome(c.id, result,
                        IF c.trigger # NoCall THEN "trigger"
                        ELSE IF c.page # NoCall THEN "page"
                        ELSE IF c.rpc # NoCall THEN "tier_c"
                        ELSE IF c.tier_a.kind = "raises" THEN "tier_b"
                        ELSE IF c.tier_a.kind = "returns" THEN "tier_a"
                        ELSE "no_client"))
    /\ pc' = "next_ref"

\* run_stage_two 241-256 (db_path is set) and process_external_links 209-210:
\* fetch_external_links reads the whole table before the first visit
RunStageTwoStart ==
    /\ pc = "resolver"
    /\ queue' = FetchExternalLinks(exturl)
    /\ cur' = NoReference
    /\ outcomes' = <<>>
    /\ pc' = "next_ref"
    /\ UNCHANGED <<svars, lbryt>>

\* process_external_links 210-220: the next row, odysee_to_canonical
VisitReference ==
    /\ pc = "next_ref"
    /\ queue # <<>>
    /\ LET ext == Head(queue)
           canonical == OdyseeToCanonical(ext.external_url)
       IN  /\ cur' = Reference(ext, canonical)
           /\ pc' = IF Truthy(canonical) THEN "tier_a" ELSE "load_page"
    /\ queue' = Tail(queue)
    /\ UNCHANGED <<svars, lbryt, outcomes>>

\* download_with_lbrytools 119-148 and handle_lbry_error 152-157, up to the
\* return or the call of fallback_lbry_get
TierA(r) ==
    /\ pc = "tier_a"
    /\ r \in TierAOutcomes(lbryt)
    /\ LET c == [cur EXCEPT !.tier_a = r]
           next == DownloadWithLbrytools(lbryt, r)
       IN  IF next = "fallback"
           THEN cur' = c /\ pc' = "tier_c" /\ UNCHANGED outcomes
           ELSE Settle(c, next)
    /\ UNCHANGED <<svars, lbryt, queue>>

\* fallback_lbry_get 161-176 with call_lbry_rpc
TierC(o) ==
    /\ pc = "tier_c"
    /\ o \in RpcResponses
    /\ Settle([cur EXCEPT !.rpc = o], IF FallbackLbryGet(o) THEN "success" ELSE "failure")
    /\ UNCHANGED <<svars, lbryt, queue>>

\* process_external_links 220-231: GET the page, find_download_target
LoadPage(o) ==
    /\ pc = "load_page"
    /\ o \in PageOutcomesFor(cur.url)
    /\ LET target == IF RequestOk(o) THEN FindDownloadTarget(cur.url, o.tags) ELSE PyNone
           c == [cur EXCEPT !.page = o, !.target = target]
       IN  IF RequestOk(o) /\ Truthy(target)
           THEN cur' = c /\ pc' = "trigger" /\ UNCHANGED outcomes
           ELSE Settle(c, "failure")
    /\ UNCHANGED <<svars, lbryt, queue>>

TriggerConsumesReference(o) ==
    /\ pc = "trigger"
    /\ o \in TriggerOutcomes
    /\ Settle([cur EXCEPT !.trigger = o], IF TriggerDownload(o) THEN "success" ELSE "failure")
    /\ exturl' = {e \in exturl : e.id # cur.id}
    /\ UNCHANGED <<web, args, entry, fresh, deletes, links, details, slinks, failed_pages,
                   failed_deep, tasks1, tasks2, inserted, stats, errlog, s1count, trace>>
    /\ UNCHANGED <<lbryt, queue>>

\* process_external_links 233-234 with trigger_download
Trigger(o) ==
    /\ pc = "trigger"
    /\ o \in TriggerOutcomes
    /\ Settle([cur EXCEPT !.trigger = o], IF TriggerDownload(o) THEN "success" ELSE "failure")
    /\ UNCHANGED <<svars, lbryt, queue>>

\* process_external_links 210: the rows are exhausted; run_stage_two 257
RunStageTwoEnd ==
    /\ pc = "next_ref"
    /\ queue = <<>>
    /\ pc' = "done"
    /\ UNCHANGED <<svars, lbryt, queue, cur, outcomes>>

NextB ==
    \/ ScriptBMain
    \/ RunStageTwoStart
    \/ VisitReference
    \/ \E r \in TierAResults \cup {NotCalled} : TierA(r)
    \/ \E o \in RpcResponses : TierC(o)
    \/ \E o \in UNION {PageOutcomesFor(u) : u \in RefUrls} : LoadPage(o)
    \/ \E o \in TriggerOutcomes : Trigger(o)
    \/ RunStageTwoEnd

SpecB == InitB /\ [][NextB]_vars

(* ------------------------------- claims -------------------------------- *)
Range(q) == {q[i] : i \in 1..Len(q)}
Count(q, v) == Cardinality({i \in 1..Len(q) : q[i] = v})
RowsOf(url) == {r \in links : r.link = url}

\* C1: Stage 1 is idempotent on the store. No url ever has two links rows; and
\* when a Stage 1 run (stage1_search + save_links) completes after an earlier
\* completed run over the same pages and page contents (no row deleted in
\* between), every url it collected has exactly one links row and its
\* inserted count is 0.
C1_Stage1Idempotent ==
    /\ \A r, q \in links : r.link = q.link => r = q
    /\ (pc = "after_s1" /\ s1count >= 2) =>
           /\ inserted = 0
           /\ \A i \in 1..Len(slinks) : Cardinality(RowsOf(slinks[i].Link)) = 1

\* a second completed Stage 1 run that collected the same url from two pages
C1_Witness ==
    /\ pc = "after_s1"
    /\ s1count >= 2
    /\ links # {}
    /\ \E i, j \in 1..Len(slinks) : i # j /\ slinks[i].Link = slinks[j].Link

\* C2: get_unscraped returns exactly the listings without a details row: for
\* every listing L, (L.id, L.url) is in the result iff no details row has
\* link_id = L.id, and the result holds nothing else.
C2_UnscrapedIsAntiJoin ==
    LET res == GetUnscraped(links, details)
    IN  /\ \A l \in links :
               <<l.id, l.link>> \in res <=> ~(\E d \in details : d.link_id = l.id)
        /\ \A w \in res : \E l \in links : w = <<l.id, l.link>>

\* a store with a detailed and an undetailed listing
C2_Witness ==
    /\ \E l \in links : \E d \in details : d.link_id = l.id
    /\ \E l \in links : \A d \in details : d.link_id # l.id
    /\ GetUnscraped(links, details) # {}

\* C3: referential integrity is an invariant of the store: every details row
\* and every exturl row has the link_id of an existing links row, also when a
\* links row is deleted by another connection during Stage 2.
C3_ReferentialIntegrity ==
    /\ \A d \in details : \E l \in links : l.id = d.link_id
    /\ \A e \in exturl : \E l \in links : l.id = e.link_id

\* C4: a links row is never mutated after creation: every step of the program
\* (any step but a delete by another connection) keeps every existing row as it
\* is, id, page, title and url, and keeps the number of rows of its url at 1.
C4_ListingImmutable ==
    [][deletes' = deletes =>
          \A r \in links : r \in links' /\ {q \in links' : q.link = r.link} = {r}]_vars

\* a url found again with another title or page than its row has
C4_Witness ==
    /\ pc = "after_s1"
    /\ \E i \in 1..Len(slinks) : \E r \in links :
           /\ r.link = slinks[i].Link
           /\ (r.title # slinks[i].Title \/ r.page # ParseInt(slinks[i].Page))

\* C5: with concurrency limit N of the stage, at most N requests are in flight
\* in every state, however many tasks were launched.
C5_BoundedInFlight ==
    /\ pc = "stage1" => InFlight(tasks1) <= args.c
    /\ pc = "stage2" => InFlight(tasks2) <= args.cd

\* the limit is reached while a launched task still waits for a connection
C5_Witness ==
    \/ /\ pc = "stage1"
       /\ InFlight(tasks1) = args.c
       /\ \E p \in DOMAIN tasks1 : tasks1[p] = "sleep"
       /\ Cardinality(DOMAIN tasks1) > args.c
    \/ /\ pc = "stage2"
       /\ InFlight(tasks2) = args.cd
       /\ \E w \in DOMAIN tasks2 : tasks2[w] = "sleep"
       /\ Cardinality(DOMAIN tasks2) > args.cd

IsFailure(o) == o.kind = "error" \/ o.status \notin 200..299

\* C6: fetch never raises: for every outcome of the request of a page of the
\* site or of a detail page it returns a string, and the empty string whenever
\* the status is not 2xx or a network error occurred; no task ends raised
\* because of a failed request.
C6_FetchNeverRaises ==
    /\ \A p \in Pages :
           /\ ~Fetch(web[p]).raised
           /\ IsFailure(web[p]) => Fetch(web[p]).value.empty
    /\ \A l \in links : \A o \in DetailOutcomesFor(l.link) :
           /\ ~Fetch(o).raised
           /\ IsFailure(o) => Fetch(o).value.empty
    /\ \A p \in DOMAIN tasks1 : (tasks1[p] = "raised") => ~IsFailure(web[p])
    /\ \A w \in DOMAIN tasks2 : tasks2[w] # "raised"

\* a page request that timed out and a detail request that failed, both done
C6_Witness ==
    /\ \E p \in DOMAIN tasks1 : tasks1[p] = "done" /\ web[p].kind = "error"
    /\ \E w \in DOMAIN tasks2 : tasks2[w] = "failed"
    /\ errlog >= 2

Pending(tasks) == \E x \in DOMAIN tasks : tasks[x] \in {"sleep", "inflight"}

\* C7: Stage 1 commits only at the fan-in: while a page task of the running
\* stage1_search has not completed, no step of the program writes a links row
\* (the table changes only by another connection's delete), so an interruption
\* then leaves the table as it was.
C7_CommitOnlyAtFanIn ==
    [][(pc = "stage1" /\ Pending(tasks1)) =>
          /\ links' \subseteq links
          /\ deletes' = deletes => links' = links]_vars

\* a page has been parsed while another task is pending, and nothing is stored
C7_Witness ==
    /\ pc = "stage1"
    /\ slinks # <<>>
    /\ \E p \in DOMAIN tasks1 : tasks1[p] = "done"
    /\ Pending(tasks1)
    /\ links = {}

\* C8: in a run started from main with Stage 1 and deep scraping, the phases
\* are ordered: Stage 1's commit, then Stage 2's work set, then Stage 2's end,
\* then the Download Resolver; a process whose scraper returned has, when it
\* stops, invoked the resolver after Stage 2.
C8_PhasesOrdered ==
    (entry = "master" /\ args.stage1 /\ args.deep /\ pc \in {"done", "crashed"}
        /\ "returned" \in Range(trace)) =>
        trace = <<"stage1_commit", "stage2_workset", "stage2_done", "returned", "resolver">>

FailedTasks == {w \in DOMAIN tasks2 : tasks2[w] = "failed"}

\* C9: in every Stage 2 run, the step in which an item's fetch returns empty
\* content appends its url once to the failure list and writes no details and
\* no exturl row; no task raises; and when the stage has completed, each failed
\* item's url is once in the failure list, the item has no details row and, if
\* its listing still exists, it is in get_unscraped again. With two listings
\* in the store, both undetailed, one failing and the other yielding a
\* description (and no row deleted by another connection), the store ends
\* with exactly 1 details row and the failure list with 1 entry.
C9_AtStageEnd ==
    /\ pc = "stage2" => \A w \in DOMAIN tasks2 : tasks2[w] # "raised"
    /\ (pc = "after_s2" /\ DOMAIN tasks2 # {}) =>
           /\ Len(failed_deep) = Cardinality(FailedTasks)
           /\ \A w \in FailedTasks :
                  /\ Count(failed_deep, w[2]) = 1
                  /\ \A d \in details : d.link_id # w[1]
                  /\ (\E l \in links : l.id = w[1] /\ l.link = w[2])
                         => w \in GetUnscraped(links, details)
           /\ (/\ Cardinality(DOMAIN tasks2) = 2
               /\ DOMAIN tasks2 = {<<l.id, l.link>> : l \in links}
               /\ deletes = 0
               /\ \E w, v \in DOMAIN tasks2 :
                      /\ tasks2[w] = "failed"
                      /\ tasks2[v] = "saved"
                      /\ Description(DetailPage(v[2])) # <<>>)
                  => Cardinality(details) = 1 /\ Len(failed_deep) = 1

C9_FailedItemSkipped ==
    [][/\ \A w \in DOMAIN tasks2 :
              (pc = "stage2" /\ tasks2[w] = "inflight" /\ w \in DOMAIN tasks2'
                  /\ tasks2'[w] = "failed") =>
                  /\ failed_deep' = Append(failed_deep, w[2])
                  /\ details' = details
                  /\ exturl' = exturl
       /\ C9_AtStageEnd']_vars

\* Stage 2 over two undetailed listings ended with one failed and one detailed
C9_Witness ==
    /\ pc = "after_s2"
    /\ Cardinality(DOMAIN tasks2) = 2
    /\ DOMAIN tasks2 = {<<l.id, l.link>> : l \in links}
    /\ deletes = 0
    /\ \E w, v \in DOMAIN tasks2 : tasks2[w] = "failed" /\ tasks2[v] = "saved"
    /\ Cardinality(details) = 1
    /\ Len(failed_deep) = 1

\* the scenario of C10: a process from main with Stage 1, started on the empty
\* store; page StartPage answers three cards with distinct urls, every other
\* page's fetch returns empty content; no row is deleted
C10_Scenario ==
    /\ fresh
    /\ entry = "master"
    /\ args.stage1
    /\ deletes = 0
    /\ web[StartPage] = Response(HttpOk, PageThree)
    /\ \A p \in Pages \ {StartPage} : IsFailure(web[p])

\* C10 as stated: 3 listings, stats reports 2 distinct pages, 1 page-fetch
\* failure recorded in failed_pages, no error raised by the crawler.
C10_AsStated ==
    (C10_Scenario /\ pc = "main_ret") =>
        /\ stats.total_links = 3
        /\ stats.pages_with_links = 2
        /\ Len(failed_pages) = 1

\* C10 amended: in that scenario the crawler raises no error; after Stage 1 the
\* store holds exactly 3 listings, fetch has logged one error per failed page
\* and failed_pages is empty; the stats returned report 3 listings on 1
\* distinct page.
C10_Amended ==
    C10_Scenario =>
        /\ \A p \in DOMAIN tasks1 : tasks1[p] # "raised"
        /\ \A w \in DOMAIN tasks2 : tasks2[w] # "raised"
        /\ pc \in {"crashed", "done"} => "returned" \in Range(trace)
        /\ failed_pages = <<>>
        /\ pc = "after_s1" =>
               /\ Cardinality(links) = 3
               /\ errlog = Cardinality(Pages) - 1
        /\ pc = "main_ret" =>
               /\ stats.total_links = 3
               /\ stats.pages_with_links = 1

\* the scraper of the scenario has returned its stats to main
C10_Witness ==
    /\ C10_Scenario
    /\ pc = "main_ret"
    /\ stats.total_links = 3
    /\ Cardinality(Pages) = 2

(* ---------------------- claims on the download stage ------------------- *)
\* host of a url, as urlparse gives it, in lower case
HostOf(url) == Lower(UrlParse(url).netloc)

\* a reference has been classified by process_external_links
Visited == cur.result # "none"

\* C11: odysee_to_canonical classifies every url: the native uri lbry://foo/bar
\* yields foo/bar, the portal url .../Item:abc123 yields Item#abc123, and a url
\* that is neither native nor hosted on the portal host yields None and goes
\* down the generic path (no content-network call is made for it).
C11_CanonicalClassifies ==
    Visited =>
        /\ cur.url = NativeUri => cur.canonical = PyStr(<<"f", "o", "o", "/", "b", "a", "r">>)
        /\ cur.url = PortalUrl =>
               cur.canonical = PyStr(<<"I", "t", "e", "m", "#", "a", "b", "c", "1", "2", "3">>)
        /\ (~StartsWith(cur.url, LbryScheme) /\ HostOf(cur.url) # PortalName) =>
               /\ cur.canonical = PyNone
               /\ pc \notin {"tier_a", "tier_c"}
               /\ cur.rpc = NoCall

\* a url of another host has been classified
C11_Witness ==
    /\ Visited
    /\ cur.url = LookalikeUrl
    /\ Truthy(cur.canonical)
    /\ pc = "tier_a"

\* download_with_lbrytools has run for the reference in work
AfterTierA == Visited /\ Truthy(cur.canonical) /\ pc # "tier_a"

TierASucceeded(c) ==
    c.tier_a.kind = "returns" /\ (c.tier_a.value = PyBool(TRUE) \/ c.tier_a.value.t = "dict")

DaemonUnreachable(c) == c.tier_a.kind = "raises" /\ c.tier_a.msg = DaemonDownMessage

\* fallback_lbry_get has been called for the reference in work
TierCAttempted == pc = "tier_c" \/ cur.rpc # NoCall

\* C12 as stated: for every content-network reference, Tier C is attempted
\* whenever Tier A did not succeed for a reason other than the daemon-unreachable
\* exception: it returned False, returned an unrecognized shape, raised another
\* exception, or could not be run because the client library is unavailable.
C12_AsStated ==
    (AfterTierA /\ ~TierASucceeded(cur) /\ ~DaemonUnreachable(cur)) => TierCAttempted

\* C12 amended: Tier C is attempted whenever Tier A ran and did not succeed for
\* a reason other than the daemon-unreachable exception (False, an unrecognized
\* shape, another exception); when the client library is unavailable Tier A is
\* not run, no RPC call is made and the outcome is failure.
C12_Amended ==
    AfterTierA =>
        /\ (cur.tier_a # NotCalled /\ ~TierASucceeded(cur) /\ ~DaemonUnreachable(cur))
               => TierCAttempted
        /\ cur.tier_a = NotCalled =>
               /\ ~lbryt
               /\ cur.result = "failure"
               /\ cur.rpc = NoCall

\* Tier A raised another exception and the RPC call made the download succeed
C12_Witness ==
    /\ AfterTierA
    /\ cur.tier_a = Raised(OtherMessage)
    /\ cur.rpc # NoCall
    /\ cur.result = "success"

\* C13: when Tier A raises the exception whose message says the daemon is
\* unreachable, the reference fails, no RPC call is made for it, no exception
\* escapes and the resolver goes on with the next reference (every reference
\* of the table has an outcome when the run ends); any other exception from
\* Tier A does lead to the RPC call.
C13_DaemonDownShortCircuits ==
    /\ pc # "crashed"
    /\ pc = "done" => Len(outcomes) = Cardinality(exturl)
    /\ (AfterTierA /\ cur.tier_a.kind = "raises") =>
           IF cur.tier_a.msg = DaemonDownMessage
           THEN /\ cur.result = "failure"
                /\ cur.rpc = NoCall
                /\ pc \in {"next_ref", "done"}
                /\ outcomes[Len(outcomes)] = Outcome(cur.id, "failure", "tier_b")
           ELSE TierCAttempted

\* the daemon was unreachable for a reference that is not the last one
C13_Witness ==
    /\ AfterTierA
    /\ cur.tier_a = Raised(DaemonDownMessage)
    /\ cur.result = "failure"
    /\ pc = "next_ref"
    /\ queue # <<>>

Working == pc \in {"tier_a", "tier_c", "load_page", "trigger"}

\* the three references of the scenario of C14
ScenarioTable == {ExternalLink(1, 1, NativeUri), ExternalLink(2, 1, PortalUrl),
                  ExternalLink(3, 1, GenericUrl)}

\* C14: the resolver visits the references one at a time in ascending id order:
\* the outcomes so far are in ascending id order (so none is visited twice),
\* the reference in work has a larger id than every finished one and a smaller
\* id than every one still to visit, a failure does not stop the run (at the
\* end every reference has an outcome), and for the scenario (native uri
\* succeeding in Tier A, portal url with the daemon unreachable, generic page
\* whose download anchor is triggered) the outcomes are success, failure,
\* success in id order.
C14_OneAtATimeInIdOrder ==
    /\ \A i, j \in 1..Len(outcomes) : i < j => outcomes[i].id < outcomes[j].id
    /\ \A i, j \in 1..Len(queue) : i < j => queue[i].id < queue[j].id
    /\ \A i \in 1..Len(outcomes) : \A j \in 1..Len(queue) : outcomes[i].id < queue[j].id
    /\ Working <=> cur.result = "pending"
    /\ Working =>
           /\ \A i \in 1..Len(outcomes) : outcomes[i].id < cur.id
           /\ \A j \in 1..Len(queue) : cur.id < queue[j].id
    /\ pc = "done" =>
           /\ {outcomes[i].id : i \in 1..Len(outcomes)} = {e.id : e \in exturl}
           /\ Len(outcomes) = Cardinality(exturl)
    /\ (/\ pc = "done"
        /\ exturl = ScenarioTable
        /\ [i \in 1..Len(outcomes) |-> outcomes[i].how] = <<"tier_a", "tier_b", "trigger">>
        /\ outcomes[1].result = "success"
        /\ TriggerDownload(cur.trigger)) =>
           [i \in 1..Len(outcomes) |-> outcomes[i].result] = <<"success", "failure", "success">>

\* the run over the scenario's table has ended with its three outcomes
C14_Witness ==
    /\ pc = "done"
    /\ exturl = ScenarioTable
    /\ [i \in 1..Len(outcomes) |-> outcomes[i].how] = <<"tier_a", "tier_b", "trigger">>
    /\ [i \in 1..Len(outcomes) |-> outcomes[i].result] = <<"success", "failure", "success">>
    /\ cur.target # PyNone

\* C15: once the store is open no error is fatal: a process started from main,
\* whatever the pages, the fetch outcomes and the enabled stages, never stops
\* on an unhandled exception.
C15_NoFatalError == entry = "master" => pc # "crashed"

\* the crash of Stage 1 on a card titled by its anchor's title attribute: the
\* gather has re-raised the AttributeError of extract_links and the process
\* has stopped before save_links
C15_Witness ==
    /\ entry = "master"
    /\ pc = "crashed"
    /\ GatherRaised(tasks1)
    /\ links = {}
    /\ "stage1_commit" \notin Range(trace)

\* C16: every record listing-page parsing has produced has a title of at most
\* TitleMax characters and an absolute url, whatever the shape of the href.
C16_TitlesShortUrlsAbsolute ==
    \A i \in DOMAIN slinks :
        /\ Len(slinks[i].Title) <= TitleMax
        /\ IsAbsolute(slinks[i].Link)

\* C17: a process started from main with -nos1 fetches no listing page and,
\* when it stops, has invoked the Download Resolver.
C17_NoStage1StillResolves ==
    (entry = "master" /\ ~args.stage1) =>
        /\ tasks1 = NoTasks
        /\ slinks = <<>>
        /\ pc \in {"done", "crashed"} => "resolver" \in Range(trace)

\* the title the stated preference gives a card: the heading's text, else the
\* anchor's title attribute, else the anchor's text, cut to TitleMax
PreferredTitle(c) ==
    Take(IF c.h THEN Strip(c.htext) ELSE IF c.attr # <<>> THEN c.attr ELSE Strip(c.text),
         TitleMax)

\* the preferred titles of the anchored cards of a page, in document order
\* (cards whose preferred title is empty are left out)
RECURSIVE PreferredTitles(_)
PreferredTitles(cards) ==
    IF cards = <<>> THEN <<>>
    ELSE LET c == Head(cards)
         IN  IF c.a /\ PreferredTitle(c) # <<>>
             THEN <<PreferredTitle(c)>> \o PreferredTitles(Tail(cards))
             ELSE PreferredTitles(Tail(cards))

\* the titles of the records of one page, in the order they were appended
RECURSIVE TitlesOfPage(_, _)
TitlesOfPage(items, page) ==
    IF items = <<>> THEN <<>>
    ELSE IF Head(items).Page = DecStr(page)
         THEN <<Head(items).Title>> \o TitlesOfPage(Tail(items), page)
         ELSE TitlesOfPage(Tail(items), page)

\* C18: when the parsing of a listing page has ended, it has not raised and
\* the records of that page carry, card by card, the title the preference
\* gives: heading text, else title attribute, else anchor text, cut to
\* TitleMax characters.
C18_TitlePreference ==
    \A p \in DOMAIN tasks1 :
        tasks1[p] \in {"done", "raised"} =>
            /\ tasks1[p] = "done"
            /\ TitlesOfPage(slinks, p) = PreferredTitles(Fetch(web[p]).value.cards)

\* the RPC call of Tier C has been answered for the current reference
AfterTierC == cur.rpc # NoCall

\* the answer was received and its body holds a result object
ResultObjectPresent(o) == RequestOk(o) /\ o.json.valid /\ o.json.result.t = "dict"

\* C19: Tier C reports success exactly when the RPC response holds a result
\* object and no error key, for every response shape (HTTP error, invalid
\* JSON, error key, no result, empty result object, result with or without a
\* path).
C19_TierCSuccessIffResult ==
    AfterTierC =>
        (cur.result = "success" <=>
            (ResultObjectPresent(cur.rpc) /\ ~cur.rpc.json.hasError))

\* the response whose result is the empty object has been reported a failure
C19_Witness ==
    /\ AfterTierC
    /\ cur.rpc = Reply(HttpOk, <<>>, Json(TRUE, FALSE, PyDict({})))
    /\ cur.result = "failure"

\* the external page of the current reference has been loaded and searched
PageSearched == cur.page # NoCall /\ RequestOk(cur.page)

\* an element has an href, or else a data-href, that is not empty
HasTarget(t) == Truthy(PyOr(t.href, t.data_href))

\* the elements a rule matches, in document order: rule 1 anchors by text,
\* rule 2 buttons by text, rule 3 anchors with a download attribute, rule 4
\* buttons with a data-download attribute
MatchesOfRule(i, tags) ==
    SelectSeq(tags, LAMBDA t : t.tag = DownloadSelectors[i].tag
                               /\ Predicate(DownloadSelectors[i], t))

\* all matching elements in priority order
MatchesInOrder(tags) ==
    MatchesOfRule(1, tags) \o MatchesOfRule(2, tags) \o MatchesOfRule(3, tags)
        \o MatchesOfRule(4, tags)

\* the href, or else data-href, of an element resolved against the page url
ResolvedTarget(t) == PyStr(UrlJoin(cur.url, PyOr(t.href, t.data_href).s))

\* C20 as stated: the target found on a page is the href (or data-href) of the
\* first matching element in priority order, and it is none only when no
\* element matches any rule.
C20_AsStated ==
    PageSearched =>
        LET m == MatchesInOrder(cur.page.tags)
        IN  IF m = <<>> THEN cur.target = PyNone
            ELSE /\ HasTarget(m[1])
                 /\ cur.target = ResolvedTarget(m[1])

\* C20 amended: the target found on a page is the href (or data-href) of the
\* first element, in priority order, that matches a rule and has a non-empty
\* href or data-href; it is none only when no matching element has one.
C20_Amended ==
    PageSearched =>
        LET m == SelectSeq(MatchesInOrder(cur.page.tags), HasTarget)
        IN  IF m = <<>> THEN cur.target = PyNone
            ELSE cur.target = ResolvedTarget(m[1])

\* a page whose first matching element has no href: the target comes from a
\* later match
C20_Witness ==
    /\ PageSearched
    /\ cur.page.tags = PageMixed
    /\ cur.url = GenericUrl
    /\ cur.target = PyStr(Https \o GenericHost \o <<"/", "f", "/", "b", ".", "z", "i", "p">>)
    /\ pc = "trigger"

\* the launched tasks of a stage that have not run to their end
Unfinished(tasks) == {x \in DOMAIN tasks : tasks[x] \in {"sleep", "inflight", "cancelled"}}

\* C21: when stage1_search or stage2_deep has returned or raised, none of the
\* scan_search / scrape_detail tasks it launched is pending or cancelled, also
\* when one of the tasks ended with an error.
C21_StageWaitsForAllTasks ==
    /\ pc # "stage1" => Unfinished(tasks1) = {}
    /\ pc # "stage2" => Unfinished(tasks2) = {}

\* Stage 1 has raised the error of one task while another task was still
\* waiting or in flight: that task was cancelled
C21_Witness ==
    /\ pc = "crashed"
    /\ \E p \in DOMAIN tasks1 : tasks1[p] = "raised"
    /\ \E p \in DOMAIN tasks1 : tasks1[p] = "cancelled"

\* the positions of a process inside run_stage_two
InResolver == pc \in {"resolver", "next_ref", "tier_a", "tier_c", "load_page", "trigger"}

\* C22: the Download Resolver only reads the store: no step of run_stage_two
\* and process_external_links, whatever the references and the outcomes of
\* their downloads, changes the links, details or exturl table.
C22_ResolverOnlyReads ==
    [][InResolver => /\ links' = links
                     /\ details' = details
                     /\ exturl' = exturl]_vars

\* a resolver run over a full table has ended, with a download triggered, a
\* content-network download and a failure, and the tables are as they were
C22_Witness ==
    /\ entry = "script_b"
    /\ pc = "done"
    /\ Len(outcomes) = MaxRefs
    /\ Cardinality(exturl) = MaxRefs
    /\ \E i \in DOMAIN outcomes : outcomes[i].how = "trigger" /\ outcomes[i].result = "success"
    /\ \E i \in DOMAIN outcomes : outcomes[i].how = "tier_a" /\ outcomes[i].result = "success"
    /\ \E i \in DOMAIN outcomes : outcomes[i].result = "failure"
    /\ links # {}

\* the step in which the scrape_detail task of work item w saves what it
\* parsed from a page fetched with non-empty content
SavedStep(w) == pc = "stage2" /\ tasks2[w] = "inflight" /\ tasks2'[w] = "saved"

\* the exturl rows of a listing
RefsOf(es, link_id) == {e \in es : e.link_id = link_id}

\* C23 as stated: a listing whose detail page was fetched with non-empty
\* content is no longer in the undetailed work set afterwards, and the
\* external references of a listing are inserted by at most one run (a task
\* that inserts references finds none stored for its listing).
C23_AsStated ==
    [][\A w \in DOMAIN tasks2 :
          SavedStep(w) =>
              /\ w \notin GetUnscraped(links', details')
              /\ exturl' # exturl => RefsOf(exturl, w[1]) = {}]_vars

\* C23 amended: a listing whose detail page was fetched with non-empty content
\* leaves the undetailed work set exactly when the page yields a non-empty
\* description (or the listing is gone from the store); a listing whose page
\* yields none stays in the work set, and every task that saves a page adds
\* all the references of the page to those already stored for the listing.
C23_Amended ==
    [][\A w \in DOMAIN tasks2 :
          SavedStep(w) =>
              LET page == DetailPage(w[2])
                  stored == \E l \in links : l.id = w[1] /\ l.link = w[2]
              IN  /\ w \in GetUnscraped(links', details') <=>
                         (stored /\ Description(page) = <<>>)
                  /\ RefsOf(exturl, w[1]) \subseteq RefsOf(exturl', w[1])
                  /\ Cardinality(RefsOf(exturl', w[1])) =
                         Cardinality(RefsOf(exturl, w[1])) + Len(ExtLinks(page.anchors))]_vars

\* two runs have fetched the page of a listing that has no description: the
\* listing is still in the work set and its reference is stored twice
C23_Witness ==
    /\ pc = "after_s2"
    /\ \E l \in links :
          /\ Description(DetailPage(l.link)) = <<>>
          /\ <<l.id, l.link>> \in GetUnscraped(links, details)
          /\ <<l.id, l.link>> \in DOMAIN tasks2
          /\ tasks2[<<l.id, l.link>>] = "saved"
          /\ Cardinality(RefsOf(exturl, l.id)) = 2

\* the (page, title, url) rows of a listings table
RowsOfTable(ls) == {<<l.page, l.title, l.link>> : l \in ls}

\* self.links when the scan_search tasks complete in ascending page order
RECURSIVE InPageOrder(_, _)
InPageOrder(p, acc) ==
    IF p > EndPage THEN acc
    ELSE InPageOrder(p + 1, ExtractLinks(Fetch(web[p]).value, p, acc).links)

\* the listings table Stage 1 commits over the store ls in that order
PageOrderTable(ls) ==
    LET items == InPageOrder(StartPage, <<>>)
    IN  IF items = <<>> THEN ls ELSE SaveLinks(items, ls, 0).tbl

\* the pages of the range on which a card yields a record with this url
PagesWith(u) ==
    {p \in Pages : \E i \in DOMAIN ExtractLinks(Fetch(web[p]).value, p, <<>>).links :
                       ExtractLinks(Fetch(web[p]).value, p, <<>>).links[i].Link = u}

\* the step in which stage1_search commits
Stage1Commit == pc = "stage1" /\ pc' = "after_s1"

\* C24 as stated: whatever the order in which the scan_search tasks complete,
\* Stage 1 commits the same (page, title, url) rows as it does when they
\* complete in page order, also when a url is on two pages of the range.
C24_AsStated ==
    [][Stage1Commit => RowsOfTable(links') = RowsOfTable(PageOrderTable(links))]_vars

\* C24 amended: in every completion order Stage 1 commits the same set of
\* urls; the row of a url that is on one page only is the same in every
\* order; the page and title of a new url are those of the record parsed
\* first, so for a url on several pages they depend on the order.
C24_Amended ==
    [][Stage1Commit =>
          /\ {l.link : l \in links'} = {l.link : l \in PageOrderTable(links)}
          /\ \A l \in links' :
                 Cardinality(PagesWith(l.link)) <= 1 =>
                     <<l.page, l.title, l.link>> \in RowsOfTable(PageOrderTable(links))
          /\ \A l \in links' \ links :
                 \E i \in DOMAIN slinks :
                     /\ slinks[i].Link = l.link
                     /\ \A j \in 1..(i - 1) : slinks[j].Link # l.link
                     /\ l.page = ParseInt(slinks[i].Page)
                     /\ l.title = slinks[i].Title]_vars

\* Stage 1 has committed, for a url found on two pages, the row of the later
\* page, whose task completed first
C24_Witness ==
    /\ pc = "after_s1"
    /\ web[StartPage] = Response(HttpOk, PageThree)
    /\ web[EndPage] = Response(HttpOk, PageSame)
    /\ \E l \in links : l.link = <<Origin, "u2">> /\ l.page = EndPage
    /\ \E k \in PageOrderTable({}) : k.link = <<Origin, "u2">> /\ k.page = StartPage

====
